---- MODULE Spec2Model ----
(***************************************************************************)
(* A model of src/rag/rag.py: RAGTask (construction and get_output) and    *)
(* call_llm / call_chatgpt.  The weaviate collection behind the client is  *)
(* the shared variable `store`; every task instance runs get_output as a   *)
(* chain of blocking calls (store read, store delete, similarity search,   *)
(* generation, store write), one call per step.                            *)
(***************************************************************************)
EXTENDS Integers, Sequences, FiniteSets, TLC

\* ---------------------------------------------------------------- bounds
\* source texts 1..NumTexts; at most MaxCalls calls of get_output in a run
NumTexts == 3
MaxCalls == 3

\* ------------------------------------------------------------- constants
\* similarity_theshold=0.95 of get_output, in percent
SimilarityThreshold == 95

\* two task instances, so that two calls can be in flight at once
Procs == {"task1", "task2"}
SourceTexts == 1..NumTexts
None == "None"
Outputs == {"text A", "text B"}
APIError == "openai.error.APIError"
Completions == Outputs \cup {APIError}
Builders == {"summarize"}
NotCallable == "not callable"
BuilderArgs == Builders \cup {NotCallable}
ClientArgs == {None, "client"}

GPT_MODELS ==
    { <<"gpt", "3.5", "turbo">>, <<"gpt", "3.5", "turbo", "16k">>,
      <<"gpt", "4">>, <<"gpt", "4", "32k">> }
ALL_MODELS == GPT_MODELS
\* model names: the allow-list and names outside of it
ModelNames == ALL_MODELS \cup { <<"gpt", "5">>, <<"claude", "2">> }
\* the model names the callers of get_output pass
ModelArgs == { <<"gpt", "3.5", "turbo">>, <<"claude", "2">> }

\* ------------------------------------------------------- pure functions
callable(b) == b \in Builders

\* task_prompt_builder(source_text): the builder wraps the source text
task_prompt_builder(b, source) == <<"Summarize this: ", source>>

NameCode(prompt) == Len(prompt[1]) * 37 + prompt[2]

\* weaviate.util.generate_uuid5: a name-based hash of the prompt text
generate_uuid5(prompt) == (NameCode(prompt) * 61 + 17) % 251

Prompts == { task_prompt_builder(b, s) : b \in Builders, s \in SourceTexts }
Keys == { generate_uuid5(q) : q \in Prompts }

Abs(n) == IF n < 0 THEN 0 - n ELSE n

\* position of a prompt's embedding vector
Embed(prompt) == prompt[2] * prompt[2]

Distance(a, b) == LET d == Abs(Embed(a) - Embed(b)) IN IF d > 100 THEN 100 ELSE d

Similarity(a, b) == 100 - Distance(a, b)

\* db.load_generated_text(client, uuid): the stored output, or None
load_generated_text(st, k) == IF k \in DOMAIN st THEN st[k].generated_text ELSE None

\* client.data_object.delete(uuid, class_name=OUTPUT_COLLECTION)
data_object_delete(st, k) == [j \in DOMAIN st \ {k} |-> st[j]]

\* db.save_generated_text(client, task_prompt, generated_text, uuid)
save_generated_text(st, prompt, text, k) ==
    [j \in DOMAIN st \cup {k} |->
        IF j = k THEN [text |-> prompt, generated_text |-> text] ELSE st[j]]

Qualifying(st, prompt, threshold) ==
    { k \in DOMAIN st : Similarity(st[k].text, prompt) >= threshold }

\* db.find_similar_objects(client, task_prompt, similarity_theshold): every
\* order the store may return the qualifying records in, nearest first
find_similar_objects(st, prompt, threshold) ==
    LET Q == Qualifying(st, prompt, threshold)
        n == Cardinality(Q)
        Orders == { f \in [1..n -> Q] :
                      /\ \A i, j \in 1..n : i # j => f[i] # f[j]
                      /\ \A i, j \in 1..n :
                            i < j => Distance(st[f[i]].text, prompt)
                                       <= Distance(st[f[j]].text, prompt) }
    IN { [i \in 1..n |->
            [id |-> f[i],
             distance |-> Distance(st[f[i]].text, prompt),
             generated_text |-> st[f[i]].generated_text]] : f \in Orders }

Contains(name, word) == \E i \in 1..Len(name) : name[i] = word

Return(v) == [kind |-> "return", value |-> v]
Raise(e) == [kind |-> "raise", value |-> e]
NoResult == [kind |-> "none", value |-> None]

\* what a call into the generation client did: its result and the remote
\* completion calls it made
Outcome(r, remote) == [result |-> r, remote |-> remote]

\* call_chatgpt: one remote chat completion, its text or its error
call_chatgpt(prompt, name, completion) ==
    Outcome(IF completion \in Outputs THEN Return(completion) ELSE Raise(completion),
            <<"ChatCompletion.create">>)

\* mutant: dispatch by family without the allow-list check
call_llm_NoAllowList(prompt, name, completion) ==
    IF Contains(name, "gpt")
    THEN call_chatgpt(prompt, name, completion)
    ELSE Outcome(Raise("No function exists to handle"), <<>>)

\* call_llm: allow-list check, then dispatch by family
call_llm(prompt, name, completion) ==
    IF name \notin ALL_MODELS
    THEN Outcome(Raise("not recognised"), <<>>)
    ELSE IF Contains(name, "gpt")
         THEN call_chatgpt(prompt, name, completion)
         ELSE Outcome(Raise("No function exists to handle"), <<>>)

\* get_output, lines 52-53: the prompt and the key of a call
PromptOf(builder, source) == task_prompt_builder(builder, source)
KeyOf(builder, source) == generate_uuid5(PromptOf(builder, source))

\* mutant: a record found is never served from the cache
ExactBranch_NoCache(fetched, ow) ==
    IF fetched # None /\ ow THEN "delete" ELSE "similar"

\* mutant: a record found is deleted whatever the overwrite flag says
ExactBranch_AlwaysDelete(fetched, ow) ==
    IF fetched # None THEN "delete" ELSE "similar"

\* mutant: the overwrite flag is ignored on a hit
ExactBranch_IgnoreOverwrite(fetched, ow) ==
    IF fetched # None THEN "done" ELSE "similar"

\* mutant: the overwrite flag alone sends the call to the delete
ExactBranch_DeleteOnOverwrite(fetched, ow) ==
    IF ow THEN "delete" ELSE IF fetched # None THEN "done" ELSE "similar"

\* mutant: with the overwrite flag a miss goes straight to generation
ExactBranch_OverwriteGenerates(fetched, ow) ==
    IF fetched # None
    THEN IF ow THEN "delete" ELSE "done"
    ELSE IF ow THEN "generate" ELSE "similar"

\* get_output, lines 57-66: where the exact lookup leads
ExactBranch(fetched, ow) ==
    IF fetched # None
    THEN IF ow THEN "delete" ELSE "done"
    ELSE "similar"

\* get_output, line 70: where the similarity search leads
SimilarBranch(objs) == IF objs # <<>> THEN "done" ELSE "generate"

\* mutant: the farthest qualifying neighbour is taken
most_similar_object_Last(objs) == objs[Len(objs)]

\* get_output, lines 75-76
most_similar_object(objs) == objs[1]

\* mutant: the write follows the generation call whatever it did
GenerateBranch_AlwaysSave(r) == "save"

\* get_output, lines 80-81: the write follows a generation that returned
GenerateBranch(r) == IF r.kind = "return" THEN "save" ELSE "raised"

\* ----------------------------------------------------------------- state
VARIABLES
    store,            \* the weaviate collection: key -> [text, generated_text]
    task,             \* per instance: the RAGTask object, None before construction
    dbInits,          \* number of db.initialize() calls made so far
    pc,               \* per instance: position in the constructor / get_output
    source_text, model_name, overwrite,      \* arguments of the running call
    task_prompt, uuid, fetched_object, similar_objects, generated_text,
    result,           \* what the call returned or raised
    trace,            \* the external calls the running call has made, in order
    ncalls,           \* get_output calls started so far
    callNo            \* per instance: the place of its call in a sequence of calls

args == <<source_text, model_name, overwrite>>
locals == <<task_prompt, uuid, fetched_object, similar_objects, generated_text>>
vars == <<store, task, dbInits, pc, source_text, model_name, overwrite,
          task_prompt, uuid, fetched_object, similar_objects, generated_text,
          result, trace, ncalls, callNo>>

NoTask == [task_prompt_builder |-> None, generated_text |-> None, client |-> None]
EmptyStore == [k \in {} |-> None]

\* RAGTask.__init__, lines 36-41: the object the constructor leaves behind
NewTask(builder, client) ==
    [task_prompt_builder |-> builder,
     generated_text |-> None,
     client |-> IF client = None THEN "db.initialize" ELSE client]

\* no call has been made yet
InitCall ==
    /\ source_text = [p \in Procs |-> 0]
    /\ model_name = [p \in Procs |-> <<>>]
    /\ overwrite = [p \in Procs |-> FALSE]
    /\ task_prompt = [p \in Procs |-> <<>>]
    /\ uuid = [p \in Procs |-> 0]
    /\ fetched_object = [p \in Procs |-> None]
    /\ similar_objects = [p \in Procs |-> <<>>]
    /\ generated_text = [p \in Procs |-> None]
    /\ result = [p \in Procs |-> NoResult]
    /\ trace = [p \in Procs |-> <<>>]
    /\ ncalls = 0
    /\ callNo = [p \in Procs |-> 0]

\* before any task is constructed
InitNew ==
    /\ store = EmptyStore
    /\ task = [p \in Procs |-> NoTask]
    /\ dbInits = 0
    /\ pc = [p \in Procs |-> "new"]
    /\ InitCall

\* every task constructed with a callable builder and a client of the caller
Init ==
    /\ store = EmptyStore
    /\ task = [p \in Procs |-> NewTask("summarize", "client")]
    /\ dbInits = 0
    /\ pc = [p \in Procs |-> "idle"]
    /\ InitCall

Running(p) == pc[p] \in {"delete", "similar", "generate", "save"}

Call(op, k) == [op |-> op, key |-> k]

\* mutant: the builder is taken as it comes
Construct_NoCheck(p, builder, client) ==
    /\ pc[p] = "new"
    /\ pc' = [pc EXCEPT ![p] = "idle"]
    /\ task' = [task EXCEPT ![p] = NewTask(builder, client)]
    /\ dbInits' = IF client = None THEN dbInits + 1 ELSE dbInits
    /\ UNCHANGED <<store, args, locals, result, trace, ncalls, callNo>>

\* RAGTask.__init__
Construct(p, builder, client) ==
    /\ pc[p] = "new"
    /\ IF ~callable(builder)
       THEN /\ pc' = [pc EXCEPT ![p] = "config_error"]
            /\ result' = [result EXCEPT ![p] = Raise("task_prompt_builder must be a callable function")]
            /\ UNCHANGED <<task, dbInits>>
       ELSE /\ pc' = [pc EXCEPT ![p] = "idle"]
            /\ task' = [task EXCEPT ![p] = NewTask(builder, client)]
            /\ dbInits' = IF client = None THEN dbInits + 1 ELSE dbInits
            /\ UNCHANGED result
    /\ UNCHANGED <<store, args, locals, trace, ncalls, callNo>>

\* mutant: the model name is checked before the exact lookup is acted on
LookupCall_ValidateFirst(p, source, model, ow) ==
    /\ pc[p] = "idle"
    /\ ncalls < MaxCalls
    /\ LET prompt == PromptOf(task[p].task_prompt_builder, source)
           k == KeyOf(task[p].task_prompt_builder, source)
           fetched == load_generated_text(store, k)
           branch == IF model \in ALL_MODELS THEN ExactBranch(fetched, ow) ELSE "raised"
       IN /\ source_text' = [source_text EXCEPT ![p] = source]
          /\ model_name' = [model_name EXCEPT ![p] = model]
          /\ overwrite' = [overwrite EXCEPT ![p] = ow]
          /\ task_prompt' = [task_prompt EXCEPT ![p] = prompt]
          /\ uuid' = [uuid EXCEPT ![p] = k]
          /\ fetched_object' = [fetched_object EXCEPT ![p] = fetched]
          /\ similar_objects' = [similar_objects EXCEPT ![p] = <<>>]
          /\ generated_text' = [generated_text EXCEPT ![p] = None]
          /\ trace' = [trace EXCEPT ![p] = <<Call("load_generated_text", k)>>]
          /\ pc' = [pc EXCEPT ![p] = branch]
          /\ result' = [result EXCEPT ![p] =
                            IF branch = "done" THEN Return(fetched)
                            ELSE IF branch = "raised" THEN Raise("not recognised")
                            ELSE NoResult]
    /\ ncalls' = ncalls + 1
    /\ UNCHANGED <<store, task, dbInits>>

\* get_output, lines 52-66: build the prompt, derive the key, exact lookup
LookupCall(p, source, model, ow) ==
    /\ pc[p] = "idle"
    /\ ncalls < MaxCalls
    /\ LET prompt == PromptOf(task[p].task_prompt_builder, source)
           k == KeyOf(task[p].task_prompt_builder, source)
           fetched == load_generated_text(store, k)
           branch == ExactBranch(fetched, ow)
       IN /\ source_text' = [source_text EXCEPT ![p] = source]
          /\ model_name' = [model_name EXCEPT ![p] = model]
          /\ overwrite' = [overwrite EXCEPT ![p] = ow]
          /\ task_prompt' = [task_prompt EXCEPT ![p] = prompt]
          /\ uuid' = [uuid EXCEPT ![p] = k]
          /\ fetched_object' = [fetched_object EXCEPT ![p] = fetched]
          /\ similar_objects' = [similar_objects EXCEPT ![p] = <<>>]
          /\ generated_text' = [generated_text EXCEPT ![p] = None]
          /\ trace' = [trace EXCEPT ![p] = <<Call("load_generated_text", k)>>]
          /\ pc' = [pc EXCEPT ![p] = branch]
          /\ result' = [result EXCEPT ![p] =
                            IF branch = "done" THEN Return(fetched) ELSE NoResult]
    /\ ncalls' = ncalls + 1
    /\ UNCHANGED <<store, task, dbInits>>

\* a call started while other calls may be running
Lookup(p, source, model, ow) ==
    /\ LookupCall(p, source, model, ow)
    /\ UNCHANGED callNo

\* the overwrite branch followed by the similarity search
Delete_ThenSimilar(p) ==
    /\ pc[p] = "delete"
    /\ store' = data_object_delete(store, uuid[p])
    /\ trace' = [trace EXCEPT ![p] = Append(@, Call("delete", uuid[p]))]
    /\ pc' = [pc EXCEPT ![p] = "similar"]
    /\ UNCHANGED <<task, dbInits, args, locals, result, ncalls, callNo>>

\* mutant: the delete empties the store
Delete_Everything(p) ==
    /\ pc[p] = "delete"
    /\ store' = EmptyStore
    /\ trace' = [trace EXCEPT ![p] = Append(@, Call("delete", uuid[p]))]
    /\ pc' = [pc EXCEPT ![p] = "generate"]
    /\ UNCHANGED <<task, dbInits, args, locals, result, ncalls, callNo>>

\* get_output, lines 59-62: the overwrite branch deletes the record found
Delete(p) ==
    /\ pc[p] = "delete"
    /\ store' = data_object_delete(store, uuid[p])
    /\ trace' = [trace EXCEPT ![p] = Append(@, Call("delete", uuid[p]))]
    /\ pc' = [pc EXCEPT ![p] = "generate"]
    /\ UNCHANGED <<task, dbInits, args, locals, result, ncalls, callNo>>

\* mutant: a similarity hit is stored under the key of the prompt
Similar_Memoize(p) ==
    /\ pc[p] = "similar"
    /\ \E objs \in find_similar_objects(store, task_prompt[p], SimilarityThreshold) :
          /\ similar_objects' = [similar_objects EXCEPT ![p] = objs]
          /\ pc' = [pc EXCEPT ![p] = SimilarBranch(objs)]
          /\ result' = [result EXCEPT ![p] =
                            IF SimilarBranch(objs) = "done"
                            THEN Return(most_similar_object(objs).generated_text)
                            ELSE NoResult]
          /\ store' = IF SimilarBranch(objs) = "done"
                      THEN save_generated_text(store, task_prompt[p],
                                               most_similar_object(objs).generated_text,
                                               uuid[p])
                      ELSE store
    /\ trace' = [trace EXCEPT ![p] = Append(@, Call("find_similar_objects", uuid[p]))]
    /\ UNCHANGED <<task, dbInits, args, task_prompt, uuid, fetched_object,
                   generated_text, ncalls, callNo>>

\* get_output, lines 68-76: similarity search after an exact miss
Similar(p) ==
    /\ pc[p] = "similar"
    /\ \E objs \in find_similar_objects(store, task_prompt[p], SimilarityThreshold) :
          /\ similar_objects' = [similar_objects EXCEPT ![p] = objs]
          /\ pc' = [pc EXCEPT ![p] = SimilarBranch(objs)]
          /\ result' = [result EXCEPT ![p] =
                            IF SimilarBranch(objs) = "done"
                            THEN Return(most_similar_object(objs).generated_text)
                            ELSE NoResult]
    /\ trace' = [trace EXCEPT ![p] = Append(@, Call("find_similar_objects", uuid[p]))]
    /\ UNCHANGED <<store, task, dbInits, args, task_prompt, uuid, fetched_object,
                   generated_text, ncalls, callNo>>

\* mutant: a failed generation puts the record found back
Generate_Restore(p, completion) ==
    /\ pc[p] = "generate"
    /\ LET o == call_llm(task_prompt[p], model_name[p], completion)
           made == [i \in 1..Len(o.remote) |-> Call(o.remote[i], uuid[p])]
       IN /\ trace' = [trace EXCEPT ![p] = (@ \o <<Call("call_llm", uuid[p])>>) \o made]
          /\ pc' = [pc EXCEPT ![p] = GenerateBranch(o.result)]
          /\ generated_text' = [generated_text EXCEPT ![p] =
                                    IF o.result.kind = "return" THEN o.result.value ELSE None]
          /\ result' = [result EXCEPT ![p] =
                            IF o.result.kind = "return" THEN NoResult ELSE o.result]
          /\ store' = IF o.result.kind = "raise" /\ fetched_object[p] # None
                      THEN save_generated_text(store, task_prompt[p], fetched_object[p], uuid[p])
                      ELSE store
    /\ UNCHANGED <<task, dbInits, args, task_prompt, uuid, fetched_object,
                   similar_objects, ncalls, callNo>>

\* get_output, line 80: call_llm returns the text or raises
Generate(p, completion) ==
    /\ pc[p] = "generate"
    /\ LET o == call_llm(task_prompt[p], model_name[p], completion)
           made == [i \in 1..Len(o.remote) |-> Call(o.remote[i], uuid[p])]
       IN /\ trace' = [trace EXCEPT ![p] = (@ \o <<Call("call_llm", uuid[p])>>) \o made]
          /\ pc' = [pc EXCEPT ![p] = GenerateBranch(o.result)]
          /\ generated_text' = [generated_text EXCEPT ![p] =
                                    IF o.result.kind = "return" THEN o.result.value ELSE None]
          /\ result' = [result EXCEPT ![p] =
                            IF o.result.kind = "return" THEN NoResult ELSE o.result]
    /\ UNCHANGED <<store, task, dbInits, args, task_prompt, uuid, fetched_object,
                   similar_objects, ncalls, callNo>>

\* mutant: the generated text is returned but never persisted
Save_NoWrite(p) ==
    /\ pc[p] = "save"
    /\ trace' = [trace EXCEPT ![p] = Append(@, Call("save_generated_text", uuid[p]))]
    /\ pc' = [pc EXCEPT ![p] = "done"]
    /\ result' = [result EXCEPT ![p] = Return(generated_text[p])]
    /\ UNCHANGED <<store, task, dbInits, args, locals, ncalls, callNo>>

\* mutant: the record is only inserted when the key is still free
Save_IfAbsent(p) ==
    /\ pc[p] = "save"
    /\ store' = IF uuid[p] \in DOMAIN store
                THEN store
                ELSE save_generated_text(store, task_prompt[p], generated_text[p], uuid[p])
    /\ trace' = [trace EXCEPT ![p] = Append(@, Call("save_generated_text", uuid[p]))]
    /\ pc' = [pc EXCEPT ![p] = "done"]
    /\ result' = [result EXCEPT ![p] = Return(generated_text[p])]
    /\ UNCHANGED <<task, dbInits, args, locals, ncalls, callNo>>

\* mutant: the record is written under a key made up for this call
Save_FreshKey(p) ==
    /\ pc[p] = "save"
    /\ store' = save_generated_text(store, task_prompt[p], generated_text[p],
                                    (uuid[p] + ncalls) % 251)
    /\ trace' = [trace EXCEPT ![p] =
                    Append(@, Call("save_generated_text", (uuid[p] + ncalls) % 251))]
    /\ pc' = [pc EXCEPT ![p] = "done"]
    /\ result' = [result EXCEPT ![p] = Return(generated_text[p])]
    /\ UNCHANGED <<task, dbInits, args, locals, ncalls, callNo>>

\* mutant: the record is written but the text is not returned
Save_ReturnsNone(p) ==
    /\ pc[p] = "save"
    /\ store' = save_generated_text(store, task_prompt[p], generated_text[p], uuid[p])
    /\ trace' = [trace EXCEPT ![p] = Append(@, Call("save_generated_text", uuid[p]))]
    /\ pc' = [pc EXCEPT ![p] = "done"]
    /\ result' = [result EXCEPT ![p] = Return(None)]
    /\ UNCHANGED <<task, dbInits, args, locals, ncalls, callNo>>

\* get_output, lines 81-83: persist the record, return the generated text
Save(p) ==
    /\ pc[p] = "save"
    /\ store' = save_generated_text(store, task_prompt[p], generated_text[p], uuid[p])
    /\ trace' = [trace EXCEPT ![p] = Append(@, Call("save_generated_text", uuid[p]))]
    /\ pc' = [pc EXCEPT ![p] = "done"]
    /\ result' = [result EXCEPT ![p] = Return(generated_text[p])]
    /\ UNCHANGED <<task, dbInits, args, locals, ncalls, callNo>>

\* the caller takes the result; the instance is free for its next call
Finish(p) ==
    /\ pc[p] \in {"done", "raised"}
    /\ pc' = [pc EXCEPT ![p] = "idle"]
    /\ source_text' = [source_text EXCEPT ![p] = 0]
    /\ model_name' = [model_name EXCEPT ![p] = <<>>]
    /\ overwrite' = [overwrite EXCEPT ![p] = FALSE]
    /\ task_prompt' = [task_prompt EXCEPT ![p] = <<>>]
    /\ uuid' = [uuid EXCEPT ![p] = 0]
    /\ fetched_object' = [fetched_object EXCEPT ![p] = None]
    /\ similar_objects' = [similar_objects EXCEPT ![p] = <<>>]
    /\ generated_text' = [generated_text EXCEPT ![p] = None]
    /\ result' = [result EXCEPT ![p] = NoResult]
    /\ trace' = [trace EXCEPT ![p] = <<>>]
    /\ callNo' = [callNo EXCEPT ![p] = 0]
    /\ UNCHANGED <<store, task, dbInits, ncalls>>

Next ==
    \/ \E p \in Procs, s \in SourceTexts, m \in ModelArgs, o \in BOOLEAN : Lookup(p, s, m, o)
    \/ \E p \in Procs : Delete(p)
    \/ \E p \in Procs : Similar(p)
    \/ \E p \in Procs, c \in Completions : Generate(p, c)
    \/ \E p \in Procs : Save(p)
    \/ \E p \in Procs : Finish(p)

\* any interleaving of the calls of the task instances
Spec == Init /\ [][Next]_vars

\* the single-threaded host: a call starts only when no other call is running
SeqLookup(p, source, model, ow) ==
    /\ \A q \in Procs \ {p} : ~Running(q)
    /\ LookupCall(p, source, model, ow)
    /\ callNo' = [callNo EXCEPT ![p] = ncalls + 1]

NextSeq ==
    \/ \E p \in Procs, s \in SourceTexts, m \in ModelArgs, o \in BOOLEAN : SeqLookup(p, s, m, o)
    \/ \E p \in Procs : Delete(p)
    \/ \E p \in Procs : Similar(p)
    \/ \E p \in Procs, c \in Completions : Generate(p, c)
    \/ \E p \in Procs : Save(p)
    \/ \E p \in Procs : Finish(p)

SpecSeq == Init /\ [][NextSeq]_vars

\* a call of a host that builds its tasks itself and takes the result of
\* each call before it makes the next one
NewLookup(p, source, model, ow) ==
    /\ \A q \in Procs \ {p} : pc[q] \in {"new", "config_error", "idle"}
    /\ LookupCall(p, source, model, ow)
    /\ callNo' = [callNo EXCEPT ![p] = ncalls + 1]

\* construction included: the tasks are built before their calls
NextNew ==
    \/ \E p \in Procs, b \in BuilderArgs, c \in ClientArgs : Construct(p, b, c)
    \/ \E p \in Procs, s \in SourceTexts, m \in ModelArgs, o \in BOOLEAN : NewLookup(p, s, m, o)
    \/ \E p \in Procs : Delete(p)
    \/ \E p \in Procs : Similar(p)
    \/ \E p \in Procs, c \in Completions : Generate(p, c)
    \/ \E p \in Procs : Save(p)
    \/ \E p \in Procs : Finish(p)

SpecNew == InitNew /\ [][NextNew]_vars

\* ------------------------------------------------------------ vocabulary
\* the instance p takes a step of its call
Step(p) == pc'[p] # pc[p]

\* the instance p starts a call of get_output
Starts(p) == pc[p] = "idle" /\ pc'[p] # "idle"

Ops(t) == [i \in 1..Len(t) |-> t[i].op]
CountOp(t, op) == Cardinality({ i \in 1..Len(t) : t[i].op = op })
KeysUsed(t) == { t[i].key : i \in 1..Len(t) }

\* key(P) and P of the call of p, from its source text
KeyP(p) == generate_uuid5(task_prompt_builder(task[p].task_prompt_builder, source_text[p]))
PromptP(p) == task_prompt_builder(task[p].task_prompt_builder, source_text[p])

\* the neighbours of a prompt with similarity >= 0.95, and the nearest ones
Neighbours(st, prompt) == { k \in DOMAIN st : Similarity(st[k].text, prompt) >= 95 }
Nearest(st, prompt) ==
    { n \in Neighbours(st, prompt) :
        \A m \in Neighbours(st, prompt) :
            Distance(st[n].text, prompt) <= Distance(st[m].text, prompt) }

HitTrace == <<"load_generated_text">>
SimilarTrace == <<"load_generated_text", "find_similar_objects">>
MissTrace == <<"load_generated_text", "find_similar_objects", "call_llm",
               "ChatCompletion.create", "save_generated_text">>
OverwriteTrace == <<"load_generated_text", "delete", "call_llm",
                    "ChatCompletion.create", "save_generated_text">>

\* ------------------------------------------------------------------ C1
\* C1: exact hit is a pure read.  When a call with overwrite=false starts
\* while the store holds a record under key(P), the call is over with its
\* exact lookup: it returns that record's output, has made no generation
\* call, no similarity search, no delete and no write, and the store is as
\* it was; a call that is over changes nothing any more.
C1_ExactHitPureRead ==
    [][\A p \in Procs :
        /\ (Starts(p) /\ ~overwrite'[p] /\ KeyP(p)' \in DOMAIN store)
              => /\ pc'[p] = "done"
                 /\ result'[p] = Return(store[KeyP(p)'].generated_text)
                 /\ Ops(trace'[p]) = HitTrace
                 /\ store' = store
        /\ (pc[p] \in {"done", "raised"} /\ Step(p))
              => store' = store /\ pc'[p] = "idle"
      ]_vars

C1_Witness ==
    \E p \in Procs :
        /\ pc[p] = "done" /\ ~overwrite[p]
        /\ KeyP(p) \in DOMAIN store
        /\ fetched_object[p] \in Outputs
        /\ result[p] = Return(store[KeyP(p)].generated_text)
        /\ Ops(trace[p]) = HitTrace

\* ------------------------------------------------------------------ C2
\* C2: overwrite.  A call with overwrite=true that starts while a record
\* exists under key(P) goes on to delete it; its delete removes the record
\* under key(P); when its generation succeeds the call writes and returns:
\* it has then made exactly one generation call, the store holds under
\* key(P) the freshly generated text, and that text is the value returned.
C2_OverwriteRegenerates ==
    [][\A p \in Procs :
        /\ (Starts(p) /\ overwrite'[p] /\ KeyP(p)' \in DOMAIN store)
              => pc'[p] = "delete" /\ store' = store
        /\ (pc[p] = "delete" /\ Step(p))
              => /\ KeyP(p) \notin DOMAIN store'
                 /\ pc'[p] = "generate"
                 /\ Ops(trace'[p]) = <<"load_generated_text", "delete">>
                 /\ KeysUsed(trace'[p]) = {KeyP(p)}
        /\ (pc[p] = "generate" /\ Step(p) /\ result'[p].kind # "raise")
              => pc'[p] = "save" /\ generated_text'[p] \in Outputs
        /\ (pc[p] = "save" /\ Step(p) /\ CountOp(trace[p], "delete") = 1)
              => /\ pc'[p] = "done"
                 /\ Ops(trace'[p]) = OverwriteTrace
                 /\ KeysUsed(trace'[p]) = {KeyP(p)}
                 /\ KeyP(p) \in DOMAIN store'
                 /\ store'[KeyP(p)] = [text |-> PromptP(p), generated_text |-> generated_text[p]]
                 /\ result'[p] = Return(generated_text[p])
      ]_vars

C2_Witness ==
    \E p \in Procs :
        /\ pc[p] = "done" /\ overwrite[p]
        /\ fetched_object[p] \in Outputs
        /\ Ops(trace[p]) = OverwriteTrace
        /\ result[p].value # fetched_object[p]
        /\ store[KeyP(p)].generated_text = result[p].value

\* ------------------------------------------------------------------ C3
\* C3: similarity hit.  In a sequence of calls, a call that starts while no
\* record exists under key(P) goes to the similarity search with the record
\* still missing; when the store then holds at least one neighbour with
\* similarity >= 0.95 the call returns the output of a nearest neighbour,
\* has made no generation call, no delete and no write, leaves the store as
\* it was, and an exact lookup of key(P) still misses.
C3_SimilarityHit ==
    [][\A p \in Procs :
        /\ (Starts(p) /\ KeyP(p)' \notin DOMAIN store)
              => pc'[p] = "similar" /\ store' = store
        /\ (pc[p] = "similar") => KeyP(p) \notin DOMAIN store
        /\ (pc[p] = "similar" /\ Step(p) /\ Neighbours(store, PromptP(p)) # {})
              => /\ pc'[p] = "done"
                 /\ result'[p].kind = "return"
                 /\ \E n \in Nearest(store, PromptP(p)) :
                        result'[p].value = store[n].generated_text
                 /\ Ops(trace'[p]) = SimilarTrace
                 /\ store' = store
                 /\ load_generated_text(store', KeyP(p)) = None
      ]_vars

C3_Witness ==
    \E p \in Procs :
        /\ pc[p] = "done"
        /\ fetched_object[p] = None
        /\ Len(similar_objects[p]) >= 2
        /\ similar_objects[p][1].generated_text # similar_objects[p][2].generated_text
        /\ result[p] = Return(similar_objects[p][1].generated_text)
        /\ KeyP(p) \notin DOMAIN store


\* ------------------------------------------------------------------ C4
\* the store st with exactly the record of the call of p written to it
Written(st, p) ==
    [j \in DOMAIN st \cup {KeyP(p)} |->
        IF j = KeyP(p)
        THEN [text |-> PromptP(p), generated_text |-> generated_text[p]]
        ELSE st[j]]

\* the call of p missed the exact lookup and found no qualifying neighbour
MissedBoth(p) ==
    /\ fetched_object[p] = None
    /\ CountOp(trace[p], "find_similar_objects") = 1
    /\ similar_objects[p] = <<>>

\* C4 as stated: every call that is over and missed both lookups has invoked
\* generation exactly once, written exactly one record and returned the
\* generated output, which the store holds under key(P).
C4_MissAlwaysWrites ==
    \A p \in Procs :
        (pc[p] \in {"done", "raised"} /\ MissedBoth(p))
            => /\ CountOp(trace[p], "call_llm") = 1
               /\ CountOp(trace[p], "save_generated_text") = 1
               /\ generated_text[p] \in Outputs
               /\ result[p] = Return(generated_text[p])

\* C4 amended: in a sequence of calls, a call that starts while no record
\* exists under key(P) and then finds no qualifying neighbour invokes
\* generation exactly once and writes nothing up to there; when that
\* generation succeeds it writes exactly the record {key(P), P, generated
\* output}, returns the generated output, and an exact lookup of key(P)
\* returns that output; when it fails the call raises and has written nothing.
C4_MissGeneratesOnce ==
    [][\A p \in Procs :
        /\ (Starts(p) /\ KeyP(p)' \notin DOMAIN store)
              => pc'[p] = "similar" /\ store' = store
        /\ (pc[p] = "similar" /\ Step(p) /\ Neighbours(store, PromptP(p)) = {})
              => /\ pc'[p] = "generate"
                 /\ Ops(trace'[p]) = SimilarTrace
                 /\ store' = store
        /\ (pc[p] = "generate" /\ Step(p) /\ MissedBoth(p))
              => /\ CountOp(trace'[p], "call_llm") = 1
                 /\ store' = store
                 /\ pc'[p] \in {"save", "raised"}
                 /\ pc'[p] = "raised"
                       => /\ result'[p].kind = "raise"
                          /\ CountOp(trace'[p], "save_generated_text") = 0
                 /\ pc'[p] = "save"
                       => generated_text'[p] \in Outputs /\ result'[p].kind = "none"
        /\ (pc[p] = "save" /\ Step(p) /\ MissedBoth(p))
              => /\ pc'[p] = "done"
                 /\ Ops(trace'[p]) = MissTrace
                 /\ KeysUsed(trace'[p]) = {KeyP(p)}
                 /\ KeyP(p) \notin DOMAIN store
                 /\ store' = Written(store, p)
                 /\ result'[p] = Return(generated_text[p])
                 /\ load_generated_text(store', KeyP(p)) = result'[p].value
      ]_vars

C4_Witness ==
    \E p \in Procs :
        /\ pc[p] = "done" /\ MissedBoth(p)
        /\ Ops(trace[p]) = MissTrace
        /\ DOMAIN store # {KeyP(p)}
        /\ KeyP(p) \in DOMAIN store
        /\ result[p] = Return(store[KeyP(p)].generated_text)

\* ------------------------------------------------------------------ C5
\* the step changes or creates a record of the store
Writes == \E k \in DOMAIN store' : k \notin DOMAIN store \/ store'[k] # store[k]

LastOp(t) == IF t = <<>> THEN None ELSE t[Len(t)].op

GenerationErrors == {"not recognised", "No function exists to handle", APIError}

\* C5: no partial cache write on a failed generation.  The generation step
\* of a call writes nothing; when it fails (always so for a model name
\* outside the allow-list) the call is over with that error and has made no
\* store write, and nothing but the return to the caller follows; a step
\* that writes to the store is the save of a call whose own generation has
\* just returned a text.
C5_NoWriteOnFailedGeneration ==
    [][\A p \in Procs :
        /\ (pc[p] = "generate" /\ Step(p))
              => /\ store' = store
                 /\ pc'[p] \in {"save", "raised"}
                 /\ model_name[p] \notin ALL_MODELS => pc'[p] = "raised"
                 /\ pc'[p] = "raised"
                       => /\ result'[p].kind = "raise"
                          /\ result'[p].value \in GenerationErrors
                          /\ CountOp(trace'[p], "save_generated_text") = 0
                 /\ pc'[p] = "save"
                       => /\ result'[p].kind = "none"
                          /\ generated_text'[p] \in Outputs
                          /\ LastOp(trace'[p]) = "ChatCompletion.create"
        /\ (pc[p] = "raised" /\ Step(p))
              => pc'[p] = "idle" /\ store' = store
        /\ (Step(p) /\ Writes)
              => /\ pc[p] = "save"
                 /\ generated_text[p] \in Outputs
                 /\ LastOp(trace[p]) = "ChatCompletion.create"
                 /\ CountOp(trace[p], "call_llm") = 1
      ]_vars

C5_Witness ==
    \E p \in Procs :
        /\ pc[p] = "raised"
        /\ result[p] = Raise(APIError)
        /\ CountOp(trace[p], "call_llm") = 1
        /\ CountOp(trace[p], "save_generated_text") = 0
        /\ KeyP(p) \notin DOMAIN store

\* ------------------------------------------------------------------ C6
\* C6: model validation in call_llm.  A name outside the allow-list fails
\* with "not recognised" and makes no remote completion call; a name of the
\* allow-list without a handler fails with the distinct "No function exists
\* to handle"; every allow-listed name of the chat family is routed to the
\* chat completion call (a statement about call_llm alone, looked at before
\* the first call); and every call of get_output that reached call_llm
\* shows the same.
C6_ModelValidation ==
    /\ ncalls = 0 =>
       \A name \in ModelNames, q \in Prompts, c \in Completions :
          LET o == call_llm(q, name, c)
          IN /\ name \notin ALL_MODELS
                   => o = Outcome(Raise("not recognised"), <<>>)
             /\ (name \in ALL_MODELS /\ ~Contains(name, "gpt"))
                   => /\ o = Outcome(Raise("No function exists to handle"), <<>>)
                      /\ o.result # Raise("not recognised")
             /\ name \in GPT_MODELS \cap ALL_MODELS
                   => /\ o = call_chatgpt(q, name, c)
                      /\ o.remote = <<"ChatCompletion.create">>
                      /\ o.result = IF c \in Outputs THEN Return(c) ELSE Raise(c)
    /\ \A p \in Procs :
          CountOp(trace[p], "call_llm") = 1
             => /\ model_name[p] \notin ALL_MODELS
                      => /\ pc[p] = "raised"
                         /\ result[p] = Raise("not recognised")
                         /\ CountOp(trace[p], "ChatCompletion.create") = 0
                /\ model_name[p] \in GPT_MODELS \cap ALL_MODELS
                      => /\ CountOp(trace[p], "ChatCompletion.create") = 1
                         /\ result[p].value \notin {"not recognised", "No function exists to handle"}

C6_Witness ==
    \E p, q \in Procs :
        /\ pc[p] = "raised"
        /\ model_name[p] \notin ALL_MODELS
        /\ result[p] = Raise("not recognised")
        /\ LastOp(trace[p]) = "call_llm"
        /\ pc[q] = "done"
        /\ model_name[q] \in GPT_MODELS
        /\ CountOp(trace[q], "ChatCompletion.create") = 1

\* ------------------------------------------------------------------ C7
Over(p) == pc[p] \in {"done", "raised"}

\* the call of q is the second call of the run, made with the source text
\* of the first call p and overwrite=false
SecondOf(p, q) ==
    /\ callNo[p] = 1 /\ callNo[q] = 2
    /\ source_text[q] = source_text[p]
    /\ ~overwrite[q]

\* C7 as stated: on a store without records the first call makes exactly
\* one generation call and exactly one store write, and a second call with
\* the same source text and overwrite=false returns the output of the first
\* with no generation call and no write.
C7_FirstCallAlwaysWrites ==
    \A p, q \in Procs :
        /\ (callNo[p] = 1 /\ Over(p))
              => /\ CountOp(trace[p], "call_llm") = 1
                 /\ CountOp(trace[p], "save_generated_text") = 1
        /\ (Over(p) /\ Over(q) /\ SecondOf(p, q))
              => /\ result[q] = result[p]
                 /\ CountOp(trace[q], "call_llm") = 0
                 /\ CountOp(trace[q], "save_generated_text") = 0

\* C7 amended: on a store without records the first call makes exactly one
\* generation call; when that generation succeeds it makes exactly one
\* store write, and a second call with the same source text and
\* overwrite=false then returns the output of the first with no generation
\* call and no write; when it fails the first call has written nothing.
C7_Memoize ==
    \A p, q \in Procs :
        /\ (callNo[p] = 1 /\ Over(p))
              => /\ CountOp(trace[p], "call_llm") = 1
                 /\ pc[p] = "done" => Ops(trace[p]) = MissTrace
                 /\ pc[p] = "raised" => CountOp(trace[p], "save_generated_text") = 0
        /\ (pc[p] = "done" /\ Over(q) /\ SecondOf(p, q))
              => /\ pc[q] = "done"
                 /\ result[q] = result[p]
                 /\ Ops(trace[q]) = HitTrace

C7_Witness ==
    \E p, q \in Procs :
        /\ pc[p] = "done" /\ pc[q] = "done" /\ SecondOf(p, q)
        /\ Ops(trace[p]) = MissTrace
        /\ Ops(trace[q]) = HitTrace
        /\ result[q] = result[p]
        /\ result[p].value \in Outputs

\* ------------------------------------------------------------------ C8
\* C8: no at-most-once generation under concurrency.  Nothing keeps two
\* calls for the same prompt from both missing, both generating and both
\* writing (the witness is such an execution, with different outputs
\* returned); every write puts its own record under key(P) whatever is
\* stored there, so the record of the later write is the one that stays.
C8_LastWriteWins ==
    [][\A p \in Procs :
        (pc[p] = "save" /\ Step(p))
            => /\ KeyP(p) \in DOMAIN store'
               /\ store'[KeyP(p)] = [text |-> PromptP(p), generated_text |-> generated_text[p]]
               /\ result'[p] = Return(generated_text[p])
               /\ \A q \in Procs \ {p} :
                     (pc[q] = "done" /\ KeyP(q) = KeyP(p) /\ Ops(trace[q]) = MissTrace)
                        => store'[KeyP(q)].generated_text = result'[p].value
      ]_vars

C8_Witness ==
    \E p, q \in Procs :
        /\ p # q
        /\ pc[p] = "done" /\ pc[q] = "done"
        /\ KeyP(p) = KeyP(q)
        /\ Ops(trace[p]) = MissTrace /\ Ops(trace[q]) = MissTrace
        /\ ~overwrite[p] /\ ~overwrite[q]
        /\ result[p] # result[q]
        /\ store[KeyP(p)].generated_text = result[p].value

\* ------------------------------------------------------------------ C9
\* C9: content-key determinism.  Two calls on the same source text, in the
\* same or in different task instances with the same prompt builder, have
\* used one and the same key for their exact lookup, their delete and their
\* write, and it is the key of their prompt.
C9_KeyDeterminism ==
    \A p, q \in Procs :
        (/\ trace[p] # <<>> /\ trace[q] # <<>>
         /\ source_text[p] = source_text[q]
         /\ task[p].task_prompt_builder = task[q].task_prompt_builder)
            => /\ task_prompt[p] = task_prompt[q]
               /\ KeysUsed(trace[p]) = {generate_uuid5(task_prompt[p])}
               /\ KeysUsed(trace[q]) = KeysUsed(trace[p])
               /\ uuid[p] = uuid[q]

C9_Witness ==
    \E p, q \in Procs :
        /\ p # q
        /\ source_text[p] = source_text[q]
        /\ Ops(trace[p]) = MissTrace
        /\ Ops(trace[q]) = OverwriteTrace
        /\ KeysUsed(trace[p]) = KeysUsed(trace[q])

\* ----------------------------------------------------------------- C10
\* C10: stored records are immutable except through overwrite.  In a
\* sequence of calls, a record of the store changes or disappears only in a
\* step of a call made with overwrite=true whose exact lookup found that
\* record; a record appears only in the save of a call whose generation
\* returned a text, after that call missed both lookups or, as the
\* replacement, after it deleted the record it found.
C10_ImmutableExceptOverwrite ==
    [][/\ \A k \in DOMAIN store :
            (k \notin DOMAIN store' \/ store'[k] # store[k])
               => \E p \in Procs :
                     /\ Step(p)
                     /\ overwrite[p]
                     /\ fetched_object[p] # None
                     /\ KeyP(p) = k
       /\ \A k \in DOMAIN store' \ DOMAIN store :
            \E p \in Procs :
               /\ Step(p) /\ pc[p] = "save"
               /\ KeyP(p) = k
               /\ generated_text[p] \in Outputs
               /\ LastOp(trace[p]) = "ChatCompletion.create"
               /\ store'[k].generated_text = generated_text[p]
               /\ \/ MissedBoth(p)
                  \/ overwrite[p] /\ fetched_object[p] # None
                       /\ CountOp(trace[p], "delete") = 1
      ]_vars

C10_Witness ==
    \E p \in Procs :
        /\ pc[p] = "generate"
        /\ overwrite[p]
        /\ fetched_object[p] \in Outputs
        /\ LastOp(trace[p]) = "delete"
        /\ KeyP(p) \notin DOMAIN store
        /\ store # EmptyStore

\* ----------------------------------------------------------------- C11
\* the tasks whose client came from db.initialize()
Initialised == { p \in Procs : task[p].client = "db.initialize" }

\* C11: the prompt builder is validated at construction.  A construction
\* that fails does so with the error of the callable check, leaves no task
\* object, has initialised no store client (every db.initialize() made
\* belongs to a task that was built) and has made no store or generation
\* call; a failed construction is final; and every task that is past its
\* construction, so every task a call runs on, has a callable builder.
C11_BuilderCheckedAtConstruction ==
    [][\A p \in Procs :
        /\ (pc[p] = "new" /\ Step(p))
              => /\ store' = store /\ trace'[p] = <<>>
                 /\ \/ /\ pc'[p] = "config_error"
                       /\ result'[p] = Raise("task_prompt_builder must be a callable function")
                       /\ task'[p] = NoTask
                       /\ dbInits' = dbInits
                    \/ /\ pc'[p] = "idle"
                       /\ callable(task'[p].task_prompt_builder)
        /\ pc[p] = "config_error"
              => pc'[p] = "config_error" /\ task'[p] = NoTask /\ trace'[p] = <<>>
        /\ pc[p] \notin {"new", "config_error"}
              => callable(task[p].task_prompt_builder)
        /\ trace'[p] # <<>> => callable(task'[p].task_prompt_builder)
        /\ dbInits' = Cardinality(Initialised')
      ]_vars

C11_Witness ==
    \E p, q \in Procs :
        /\ pc[p] = "config_error"
        /\ task[p] = NoTask
        /\ result[p].kind = "raise"
        /\ dbInits = 1
        /\ task[q].client = "db.initialize"
        /\ pc[q] = "done"
        /\ store # EmptyStore

\* ------------------------------------------------------------------ C12
\* the call of p has deleted the record it found
Deleted(p) == CountOp(trace[p], "delete") = 1

\* C12 as stated: overwrite on an exact hit proceeds as a miss, that is,
\* the delete is followed by the similarity lookup, before any generation,
\* and a call that deleted and finds a neighbour with similarity >= 0.95 in
\* the post-delete store returns that neighbour's output.
C12_OverwriteProceedsAsMiss ==
    [][\A p \in Procs :
        /\ (pc[p] = "delete" /\ Step(p)) => pc'[p] = "similar"
        /\ (pc[p] = "generate" /\ Step(p))
              => CountOp(trace[p], "find_similar_objects") = 1
        /\ (Deleted(p) /\ Step(p) /\ pc'[p] = "done"
                /\ Neighbours(store, PromptP(p)) # {})
              => \E n \in Nearest(store, PromptP(p)) :
                     result'[p] = Return(store[n].generated_text)
      ]_vars

\* C12 (amended): overwrite on an exact hit deletes the record and goes
\* straight to generation.  The delete leaves every other record as it was;
\* the call makes no similarity lookup, also when the post-delete store
\* holds a neighbour with similarity >= 0.95; when its generation succeeds
\* it writes the fresh record into the post-delete store and returns the
\* fresh output, as a miss without neighbour does.
C12_OverwriteSkipsSimilarity ==
    [][\A p \in Procs :
        /\ (pc[p] = "delete" /\ Step(p))
              => /\ pc'[p] = "generate"
                 /\ store' = [k \in DOMAIN store \ {KeyP(p)} |-> store[k]]
                 /\ Ops(trace'[p]) = <<"load_generated_text", "delete">>
        /\ (Deleted(p) /\ Step(p) /\ pc'[p] # "idle")
              => /\ CountOp(trace'[p], "find_similar_objects") = 0
                 /\ similar_objects'[p] = similar_objects[p]
        /\ (Deleted(p) /\ pc[p] = "generate" /\ Step(p))
              => /\ store' = store
                 /\ pc'[p] \in {"save", "raised"}
        /\ (Deleted(p) /\ pc[p] = "save" /\ Step(p))
              => /\ store' = Written(store, p)
                 /\ result'[p] = Return(generated_text[p])
                 /\ Ops(trace'[p]) = OverwriteTrace
        /\ (MissedBoth(p) /\ pc[p] = "save" /\ Step(p))
              => /\ store' = Written(store, p)
                 /\ result'[p] = Return(generated_text[p])
      ]_vars

\* an overwriting call returned a fresh output although the store holds a
\* neighbour of its prompt, with another output, that qualifies
C12_Witness ==
    \E p \in Procs :
        /\ pc[p] = "done" /\ overwrite[p] /\ Deleted(p)
        /\ Ops(trace[p]) = OverwriteTrace
        /\ \E n \in Neighbours(store, PromptP(p)) \ {KeyP(p)} :
               /\ store[n].generated_text # result[p].value
               /\ store[KeyP(p)].generated_text = result[p].value

\* ------------------------------------------------------------------ C13
\* the external calls of one get_output, in the order the claim gives them
Chain == <<"load_generated_text", "find_similar_objects", "delete",
           "call_llm", "ChatCompletion.create", "save_generated_text">>
Rank(op) == CHOOSE i \in 1..Len(Chain) : Chain[i] = op

\* the external calls of t follow the chain, each at most once
InChainOrder(t) ==
    /\ \A i \in 1..Len(t) : t[i].op \in { Chain[j] : j \in 1..Len(Chain) }
    /\ \A i, j \in 1..Len(t) : i < j => Rank(t[i].op) < Rank(t[j].op)

\* C13: sequential call chain.  In every state the external calls a call
\* has made so far begin with the exact lookup and follow the order exact
\* lookup, similarity lookup, delete, generation, write, each at most once;
\* a call that deleted had hit the exact lookup with overwrite=true; a call
\* that wrote had made its generation call before, and that call returned a
\* text; and once a call has returned or raised it makes no further
\* external call and changes the store no more.
C13_CallChain ==
    /\ [](\A p \in Procs :
            /\ InChainOrder(trace[p])
            /\ trace[p] # <<>> => trace[p][1].op = "load_generated_text"
            /\ CountOp(trace[p], "delete") = 1
                  => fetched_object[p] # None /\ overwrite[p]
            /\ CountOp(trace[p], "save_generated_text") = 1
                  => /\ CountOp(trace[p], "call_llm") = 1
                     /\ generated_text[p] \in Outputs
                     /\ LastOp(trace[p]) = "save_generated_text"
            /\ pc[p] \in {"idle", "new", "config_error"} => trace[p] = <<>>)
    /\ [][\A p \in Procs :
            /\ Step(p) => \/ Len(trace'[p]) > Len(trace[p])
                          \/ Over(p) /\ trace'[p] = <<>>
            /\ Over(p) => trace'[p] \in {trace[p], <<>>}
            /\ (Over(p) /\ Step(p)) => store' = store /\ pc'[p] = "idle"
         ]_vars

\* one call wrote after lookup, similarity search and generation, in that
\* order, while another deleted and then raised without a write
C13_Witness ==
    \E p, q \in Procs :
        /\ pc[p] = "done" /\ Ops(trace[p]) = MissTrace
        /\ pc[q] = "raised"
        /\ CountOp(trace[q], "delete") = 1
        /\ CountOp(trace[q], "save_generated_text") = 0
        /\ LastOp(trace[q]) \in {"call_llm", "ChatCompletion.create"}

\* ------------------------------------------------------------------ C14
\* the call of q is the call made right after the call of p, with the same
\* source text
NextOf(p, q) ==
    /\ callNo[p] > 0 /\ callNo[q] = callNo[p] + 1
    /\ source_text[q] = source_text[p]

\* the call of p is over with a similarity hit
SimilarHit(p) == pc[p] = "done" /\ Ops(trace[p]) = SimilarTrace

\* C14: a similarity hit is never memoized.  In a sequence of calls, when
\* the latest call, for P, has returned from a similarity hit the store
\* holds no record under key(P), and the call made right after it for P
\* (whatever its model_name and overwrite) misses the exact lookup, runs
\* the similarity search again, gets the same neighbours and returns the
\* same output, with no generation call and no write; that call again
\* leaves no record under key(P), so the same holds for the call after it.
C14_SimilarHitNotMemoized ==
    \A p, q \in Procs :
        /\ (SimilarHit(p) /\ callNo[p] = ncalls)
              => /\ KeyP(p) \notin DOMAIN store
                 /\ Neighbours(store, PromptP(p)) # {}
        /\ (SimilarHit(p) /\ NextOf(p, q))
              => /\ pc[q] \in {"similar", "done"}
                 /\ KeyP(q) \notin DOMAIN store
                 /\ fetched_object[q] = None
                 /\ pc[q] = "done"
                       => /\ Ops(trace[q]) = SimilarTrace
                          /\ similar_objects[q] = similar_objects[p]
                          /\ result[q] = result[p]

C14_Witness ==
    \E p, q \in Procs :
        /\ SimilarHit(p) /\ SimilarHit(q) /\ NextOf(p, q)
        /\ result[q] = result[p] /\ result[p].value \in Outputs
        /\ KeyP(q) \notin DOMAIN store
        /\ store # EmptyStore

\* ------------------------------------------------------------------ C15
\* the call of p is the latest call of the sequence
Latest(p) == callNo[p] > 0 /\ callNo[p] = ncalls

\* C15: error path of overwrite.  In a sequence of calls, once the latest
\* call has deleted the record it found, the store holds no record under
\* key(P) until that call writes; when its generation fails (always so for
\* a model name outside the allow-list) the call is over with the error of
\* the generation, has made no write, and the store still holds no record
\* under key(P) although the call had found one: the old output is lost.
C15_OverwriteFailureLosesRecord ==
    \A p \in Procs :
        /\ (Latest(p) /\ Deleted(p))
              => /\ fetched_object[p] \in Outputs /\ overwrite[p]
                 /\ pc[p] \in {"generate", "save", "raised"}
                       => KeyP(p) \notin DOMAIN store
                 /\ (pc[p] \in {"save", "done"}) => model_name[p] \in ALL_MODELS
        /\ (Latest(p) /\ Deleted(p) /\ pc[p] = "raised")
              => /\ result[p].kind = "raise"
                 /\ result[p].value \in GenerationErrors
                 /\ CountOp(trace[p], "save_generated_text") = 0
                 /\ load_generated_text(store, KeyP(p)) = None
                 /\ \A o \in Outputs : store # save_generated_text(store, PromptP(p), o, KeyP(p))

\* an overwriting call with a model name outside the allow-list has raised
\* after deleting the record it found
C15_Witness ==
    \E p \in Procs :
        /\ pc[p] = "raised" /\ Latest(p) /\ Deleted(p)
        /\ overwrite[p] /\ fetched_object[p] \in Outputs
        /\ model_name[p] \notin ALL_MODELS
        /\ result[p].kind = "raise"
        /\ KeyP(p) \notin DOMAIN store

\* ------------------------------------------------------------------ C16
\* C16: the model name is checked on the generation path only.  Whatever
\* its model_name, a call that found a record with overwrite=false is over
\* with the exact lookup and returns the record's output, and a call whose
\* similarity search found a neighbour is over with that search and returns
\* the nearest neighbour's output; neither has called call_llm.  A call has
\* an error only after its call of call_llm, and the error "not recognised"
\* exactly when it has called call_llm with a name outside the allow-list.
C16_ModelCheckedOnGenerationOnly ==
    \A p \in Procs :
        /\ (pc[p] \notin {"idle", "new", "config_error"}
                /\ fetched_object[p] # None /\ ~overwrite[p])
              => /\ pc[p] = "done"
                 /\ result[p] = Return(fetched_object[p])
                 /\ Ops(trace[p]) = HitTrace
        /\ similar_objects[p] # <<>>
              => /\ pc[p] = "done"
                 /\ result[p] = Return(similar_objects[p][1].generated_text)
                 /\ Ops(trace[p]) = SimilarTrace
        /\ pc[p] \in {"delete", "similar", "generate", "save"} => result[p] = NoResult
        /\ (result[p].kind = "raise" /\ pc[p] # "config_error")
              => /\ pc[p] = "raised"
                 /\ CountOp(trace[p], "call_llm") = 1
                 /\ LastOp(trace[p]) \in {"call_llm", "ChatCompletion.create"}
        /\ result[p] = Raise("not recognised")
              <=> (CountOp(trace[p], "call_llm") = 1 /\ model_name[p] \notin ALL_MODELS)

\* with a model name outside the allow-list one call returned from an
\* exact hit and another from a similarity hit
C16_Witness ==
    \E p, q \in Procs :
        /\ model_name[p] \notin ALL_MODELS /\ model_name[q] \notin ALL_MODELS
        /\ pc[p] = "done" /\ Ops(trace[p]) = HitTrace
        /\ result[p].kind = "return" /\ result[p].value \in Outputs
        /\ pc[q] = "done" /\ Ops(trace[q]) = SimilarTrace
        /\ result[q].kind = "return" /\ result[q].value \in Outputs

\* ------------------------------------------------------------------ C17
\* the call of p is under way or over and its exact lookup found nothing
ExactMiss(p) == pc[p] \notin {"idle", "new", "config_error"} /\ fetched_object[p] = None

\* C17: overwrite has no effect without an exact hit.  The exact lookup
\* that finds nothing leads to the similarity search for both values of
\* overwrite; a call that found nothing, overwrite=true included, goes to
\* the similarity search, never deletes, and when that search found a
\* neighbour it is over with the nearest neighbour's output, without
\* generation call and without write; only when the search found nothing
\* does it generate.
C17_OverwriteNeedsExactHit ==
    /\ ncalls = 0 => ExactBranch(None, TRUE) = ExactBranch(None, FALSE)
    /\ \A p \in Procs :
          ExactMiss(p)
             => /\ ~Deleted(p)
                /\ Ops(trace[p]) = HitTrace <=> pc[p] = "similar"
                /\ pc[p] # "similar" => CountOp(trace[p], "find_similar_objects") = 1
                /\ similar_objects[p] # <<>>
                      => /\ pc[p] = "done"
                         /\ Ops(trace[p]) = SimilarTrace
                         /\ result[p] = Return(similar_objects[p][1].generated_text)
                /\ CountOp(trace[p], "call_llm") = 1 => similar_objects[p] = <<>>

\* a call with overwrite=true returned a neighbour's output: no delete, no
\* generation, no write, no record under its own key
C17_Witness ==
    \E p \in Procs :
        /\ pc[p] = "done" /\ overwrite[p] /\ ExactMiss(p)
        /\ Ops(trace[p]) = SimilarTrace
        /\ result[p] = Return(similar_objects[p][1].generated_text)
        /\ KeyP(p) \notin DOMAIN store

\* ------------------------------------------------------------------ C18
\* the records under the keys other than k are the same before and after
SameElsewhere(k) ==
    /\ DOMAIN store' \ {k} = DOMAIN store \ {k}
    /\ \A j \in DOMAIN store \ {k} : store'[j] = store[j]

\* C18: key locality.  Under every interleaving of calls, each record of
\* the store is stored under the key of its own prompt, with an output that
\* was generated, and no two records have the same prompt; every external
\* call of a call for P names key(P); a step of that call leaves the
\* records under all other keys as they were; its delete removes the record
\* under key(P) and its write puts under key(P) the prompt P and the output
\* its generation returned.
C18_KeyLocality ==
    /\ [](/\ \A k \in DOMAIN store :
                /\ store[k].text \in Prompts
                /\ k = generate_uuid5(store[k].text)
                /\ store[k].generated_text \in Outputs
          /\ \A j, k \in DOMAIN store : store[j].text = store[k].text => j = k
          /\ \A p \in Procs : KeysUsed(trace[p]) \subseteq {KeyP(p)})
    /\ [][\A p \in Procs :
            /\ Starts(p) => store' = store
            /\ (Step(p) /\ ~Starts(p)) => SameElsewhere(KeyP(p))
            /\ (pc[p] = "delete" /\ Step(p)) => KeyP(p) \notin DOMAIN store'
            /\ (pc[p] = "save" /\ Step(p))
                  => /\ generated_text[p] \in Outputs
                     /\ store'[KeyP(p)] = [text |-> PromptP(p),
                                           generated_text |-> generated_text[p]]
            /\ (Step(p) /\ pc[p] \notin {"delete", "save"}) => store' = store
         ]_vars

\* an overwriting call has replaced the record under its key while the
\* store holds the record of another prompt, written during that call
C18_Witness ==
    \E p, q \in Procs :
        /\ pc[p] = "done" /\ Deleted(p)
        /\ KeyP(p) \in DOMAIN store /\ KeyP(q) \in DOMAIN store
        /\ store[KeyP(p)] = [text |-> PromptP(p), generated_text |-> result[p].value]
        /\ result[p].value # fetched_object[p]
        /\ pc[q] = "done" /\ Ops(trace[q]) = MissTrace
        /\ KeyP(q) # KeyP(p)
        /\ store[KeyP(q)] = [text |-> PromptP(q), generated_text |-> result[q].value]

====
